---------------------------- MODULE Spec2Model ----------------------------
(* A model of api/give.js: the request handler of the meme endpoint, its   *)
(* path parsing and validation, the in-memory TTL cache, and the           *)
(* primary (Reddit) / fallback (meme-api) fetch pipeline.                  *)
(*                                                                         *)
(* Strings that the code inspects character by character (path segments,   *)
(* subreddit names, cache keys, urls) are sequences of UTF-16 code units:  *)
(* <<109, 101>> is "me". JavaScript numbers are records [nan, val]:        *)
(* parseInt may yield NaN.                                                 *)
EXTENDS Integers, Sequences, FiniteSets, TLC

VARIABLES now, cache, req, started, last, pathParts, parsed

vars == <<now, cache, req, started, last, pathParts, parsed>>

(***************************************************************************)
(* Bounds of the model                                                     *)
(***************************************************************************)
MaxRequests == 2
MaxChildren == 2
MaxSegLen == 3

(***************************************************************************)
(* Characters: UTF-16 code units                                           *)
(***************************************************************************)
\* 0-9
DigitSet == 48..57

\* a-f and A-F
HexDigitSet == DigitSet \cup (97..102) \cup (65..70)

\* a-z
LowerSet == 97..122

\* A-Z
UpperSet == 65..90

\* the character class [a-zA-Z0-9_] of the subreddit pattern
WordChars == LowerSet \cup UpperSet \cup DigitSet \cup {95}

\* the white space and line terminators that parseInt and Number strip:
\* TAB, LF, VT, FF, CR, SP, NBSP, U+1680, U+2000..U+200A, LS, PS, U+202F,
\* U+205F, U+3000, U+FEFF
WhiteSpace ==
    {9, 10, 11, 12, 13, 32, 160, 5760} \cup (8192..8202)
        \cup {8232, 8233, 8239, 8287, 12288, 65279}

(***************************************************************************)
(* JavaScript numbers: NaN or an integer (exact as far as the integers of  *)
(* the checker go; the segments the specifications draw are short)         *)
(***************************************************************************)
NaN == [nan |-> TRUE, val |-> 0]

Num(n) == [nan |-> FALSE, val |-> n]

\* x < y of JavaScript: false as soon as one side is NaN
JsLt(x, y) == ~x.nan /\ ~y.nan /\ x.val < y.val

JsGt(x, y) == ~x.nan /\ ~y.nan /\ x.val > y.val

DigitVal(c) == c - 48

HexDigitVal(c) ==
    IF c \in DigitSet THEN DigitVal(c)
    ELSE IF c \in 97..102 THEN c - 87
    ELSE c - 55

\* the value of a string of radix-R digits, left to right
RECURSIVE DigitsValue(_, _, _)
DigitsValue(s, radix, acc) ==
    IF s = <<>> THEN acc
    ELSE DigitsValue(Tail(s), radix, acc * radix + HexDigitVal(Head(s)))

RECURSIVE TrimStart(_)
TrimStart(s) ==
    IF s # <<>> /\ Head(s) \in WhiteSpace THEN TrimStart(Tail(s)) ELSE s

RECURSIVE TrimEnd(_)
TrimEnd(s) ==
    IF s # <<>> /\ s[Len(s)] \in WhiteSpace
    THEN TrimEnd(SubSeq(s, 1, Len(s) - 1)) ELSE s

\* the longest prefix of s made of characters of set D
RECURSIVE DigitPrefix(_, _)
DigitPrefix(s, D) ==
    IF s # <<>> /\ Head(s) \in D
    THEN <<Head(s)>> \o DigitPrefix(Tail(s), D) ELSE <<>>

AllIn(s, D) == \A i \in 1..Len(s) : s[i] \in D

(***************************************************************************)
(* parseInt(string) with no radix (ECMAScript parseInt): strip leading     *)
(* white space, take a sign, take a 0x/0X prefix as radix 16, convert the  *)
(* longest prefix of digits; no digit at all gives NaN.                    *)
(***************************************************************************)
ParseIntDigits(s, radix) ==
    LET z == DigitPrefix(s, IF radix = 16 THEN HexDigitSet ELSE DigitSet)
    IN  IF z = <<>> THEN NaN ELSE Num(DigitsValue(z, radix, 0))

\* 43 "+", 45 "-", 48 "0", 120 "x", 88 "X"
parseInt(str) ==
    LET s0   == TrimStart(str)
        neg  == s0 # <<>> /\ Head(s0) = 45
        s1   == IF s0 # <<>> /\ Head(s0) \in {43, 45} THEN Tail(s0) ELSE s0
        hex  == Len(s1) >= 2 /\ s1[1] = 48 /\ s1[2] \in {120, 88}
        s2   == IF hex THEN SubSeq(s1, 3, Len(s1)) ELSE s1
        n    == ParseIntDigits(s2, IF hex THEN 16 ELSE 10)
    IN  IF n.nan THEN NaN ELSE Num(IF neg THEN 0 - n.val ELSE n.val)

(***************************************************************************)
(* isNaN(string): whether Number(string) (ECMAScript StringToNumber) is    *)
(* NaN. White space is trimmed on both sides; the empty string is 0; a     *)
(* StrNumericLiteral is a signed decimal literal (digits, fraction,        *)
(* exponent, Infinity) or an unsigned 0x / 0o / 0b integer literal; every  *)
(* other string is NaN. The handler uses nothing else of the number.       *)
(***************************************************************************)
\* "Infinity"
INFINITY == <<73, 110, 102, 105, 110, 105, 116, 121>>

\* 0-7
OctDigitSet == 48..55

\* 0 and 1
BinDigitSet == {48, 49}

\* ExponentPart ::: (e | E) (+ | -)? DecimalDigits, or nothing
ExponentPart(s) ==
    \/ s = <<>>
    \/ /\ Head(s) \in {101, 69}
       /\ LET t == Tail(s)
              d == IF t # <<>> /\ Head(t) \in {43, 45} THEN Tail(t) ELSE t
          IN  d # <<>> /\ AllIn(d, DigitSet)

\* StrUnsignedDecimalLiteral ::: Infinity | digits . digits? exponent?
\*                             | . digits exponent? | digits exponent?
UnsignedDecimal(u) ==
    \/ u = INFINITY
    \/ LET ip     == DigitPrefix(u, DigitSet)
           r1     == SubSeq(u, Len(ip) + 1, Len(u))
           hasDot == r1 # <<>> /\ Head(r1) = 46
           fp     == IF hasDot THEN DigitPrefix(Tail(r1), DigitSet) ELSE <<>>
           r2     == IF hasDot THEN SubSeq(r1, Len(fp) + 2, Len(r1)) ELSE r1
       IN  (ip # <<>> \/ fp # <<>>) /\ ExponentPart(r2)

\* NonDecimalIntegerLiteral: 0x, 0o, 0b and at least one digit, no sign
NonDecimal(t) ==
    /\ Len(t) >= 3
    /\ t[1] = 48
    /\ LET d == SubSeq(t, 3, Len(t))
       IN  \/ t[2] \in {120, 88} /\ AllIn(d, HexDigitSet)
           \/ t[2] \in {111, 79} /\ AllIn(d, OctDigitSet)
           \/ t[2] \in {98, 66} /\ AllIn(d, BinDigitSet)

\* isNaN(param) of a string argument: the trimmed string is neither empty
\* nor a StrNumericLiteral
isNaN(param) ==
    LET t == TrimEnd(TrimStart(param))
    IN  /\ t # <<>>
        /\ ~NonDecimal(t)
        /\ ~UnsignedDecimal(IF Head(t) \in {43, 45} THEN Tail(t) ELSE t)

(***************************************************************************)
(* Number to string, as the template literal of getCachedKey does it       *)
(***************************************************************************)
RECURSIVE Decimal(_)
Decimal(n) ==
    IF n < 10 THEN <<48 + n>>
    ELSE Decimal(n \div 10) \o <<48 + (n % 10)>>

\* "NaN", or the decimal digits after a "-" for a negative number
NumberToString(x) ==
    IF x.nan THEN <<78, 97, 78>>
    ELSE IF x.val < 0 THEN <<45>> \o Decimal(0 - x.val)
    ELSE Decimal(x.val)

(***************************************************************************)
(* handler: path parsing and validation (give.js 182-223)                  *)
(***************************************************************************)
\* "memes"
MEMES == <<109, 101, 109, 101, 115>>

COUNT_MIN == 1

COUNT_MAX == 100

Params(subreddit, count) == [subreddit |-> subreddit, count |-> count]

\* mutant: the two segments are read in the other order
ParsePath_Swapped(parts) ==
    IF Len(parts) = 0 THEN Params(MEMES, Num(1))
    ELSE IF Len(parts) = 1
         THEN IF isNaN(parts[1]) THEN Params(parts[1], Num(1))
                                 ELSE Params(MEMES, parseInt(parts[1]))
    ELSE IF Len(parts) = 2 THEN Params(parts[2], parseInt(parts[1]))
    ELSE Params(MEMES, Num(1))

\* mutant: without segments the count is parsed from a missing segment
ParsePath_NoDefault(parts) ==
    IF Len(parts) = 0 THEN Params(MEMES, NaN)
    ELSE IF Len(parts) = 1
         THEN IF isNaN(parts[1]) THEN Params(parts[1], Num(1))
                                 ELSE Params(MEMES, parseInt(parts[1]))
    ELSE IF Len(parts) = 2 THEN Params(parts[1], parseInt(parts[2]))
    ELSE Params(MEMES, Num(1))

\* let subreddit = 'memes'; let count = 1; then the if / else-if chain over
\* pathParts.length
ParsePath(parts) ==
    IF Len(parts) = 0 THEN Params(MEMES, Num(1))
    ELSE IF Len(parts) = 1
         THEN IF isNaN(parts[1]) THEN Params(parts[1], Num(1))
                                 ELSE Params(MEMES, parseInt(parts[1]))
    ELSE IF Len(parts) = 2 THEN Params(parts[1], parseInt(parts[2]))
    ELSE Params(MEMES, Num(1))

\* count < 1 || count > 100
CountOutOfRange(count) ==
    JsLt(count, Num(COUNT_MIN)) \/ JsGt(count, Num(COUNT_MAX))

\* mutant: the pattern with * for +
SubredditMatches_Star(subreddit) == AllIn(subreddit, WordChars)

\* /^[a-zA-Z0-9_]+$/.test(subreddit)
SubredditMatches(subreddit) ==
    Len(subreddit) >= 1 /\ AllIn(subreddit, WordChars)

\* the outcome of the two validation steps of the handler
Validate(p) ==
    IF CountOutOfRange(p.count) THEN "badCount"
    ELSE IF ~SubredditMatches(p.subreddit) THEN "badSubreddit"
    ELSE "fetch"

(***************************************************************************)
(* The parsing specification: the path segments are drawn from all strings *)
(* over ParseAlphabet up to MaxSegLen characters, the decimal texts of the *)
(* counts 0..101 and a few longer names; one step parses and validates.    *)
(***************************************************************************)
\* 0 1 2 e x a _ . - + space and form feed
ParseAlphabet == {48, 49, 50, 101, 120, 97, 95, 46, 45, 43, 32, 12}

Strings(A, n) == UNION {[1..k -> A] : k \in 0..n}

CountTexts == {Decimal(c) : c \in 0..(COUNT_MAX + 1)}

ParseSegments ==
    Strings(ParseAlphabet, MaxSegLen) \cup CountTexts \cup {MEMES, INFINITY}

\* first segments of the two-segment paths
\* "memes", "a_1", "2", "a-" and ""
ParseSubreddits == {MEMES, <<97, 95, 49>>, <<50>>, <<97, 45>>, <<>>}

ParseInputs ==
    {<<>>} \cup {<<p>> : p \in ParseSegments}
           \cup {<<s, p>> : s \in ParseSubreddits, p \in ParseSegments}
           \cup {<<s, p, p>> : s \in ParseSubreddits, p \in CountTexts}

NotParsed ==
    [done |-> FALSE, subreddit |-> <<>>, count |-> NaN, outcome |-> ""]

ParsedOf(parts) ==
    LET p == ParsePath(parts)
    IN  [done |-> TRUE, subreddit |-> p.subreddit, count |-> p.count,
         outcome |-> Validate(p)]

(***************************************************************************)
(* The cache (give.js 7-28): a map from key to {data, timestamp}           *)
(***************************************************************************)
CACHE_DURATION == 5 * 60 * 1000

EmptyCache == [k \in {} |-> 0]

NoResult == [count |-> 0 - 1, memes |-> <<>>]

\* mutant: the key is the two parts without the separator
getCachedKey_NoSeparator(subreddit, count) ==
    subreddit \o NumberToString(count)

getCachedKey(subreddit, count) ==
    subreddit \o <<95>> \o NumberToString(count)

\* mutant: an entry is still served at the age of CACHE_DURATION
CacheFresh_Inclusive(entry, t) == t - entry.timestamp <= CACHE_DURATION

\* Date.now() - cached.timestamp < CACHE_DURATION
CacheFresh(entry, t) == t - entry.timestamp < CACHE_DURATION

CacheDelete(c, key) == [k \in (DOMAIN c) \ {key} |-> c[k]]

\* mutant: an expired entry is reported absent but left in the cache
getFromCache_NoDelete(c, key, t) ==
    IF key \in DOMAIN c /\ CacheFresh(c[key], t)
    THEN [found |-> TRUE, data |-> c[key].data, cache |-> c]
    ELSE [found |-> FALSE, data |-> NoResult, cache |-> c]

\* returns the data (or null: found = FALSE) and the cache it leaves
getFromCache(c, key, t) ==
    IF key \in DOMAIN c /\ CacheFresh(c[key], t)
    THEN [found |-> TRUE, data |-> c[key].data, cache |-> c]
    ELSE [found |-> FALSE, data |-> NoResult, cache |-> CacheDelete(c, key)]

\* mutant: replacing an entry renews its timestamp and keeps its payload
setCache_KeepOldData(c, key, data, t) ==
    [k \in (DOMAIN c) \cup {key} |->
        IF k = key
        THEN [data |-> IF key \in DOMAIN c THEN c[key].data ELSE data,
              timestamp |-> t]
        ELSE c[k]]

setCache(c, key, data, t) ==
    [k \in (DOMAIN c) \cup {key} |->
        IF k = key THEN [data |-> data, timestamp |-> t] ELSE c[k]]

(***************************************************************************)
(* The two sources and what they may answer                                *)
(***************************************************************************)
RedditPost(id, host, title, stickied, over18) ==
    [id |-> id, subreddit |-> MEMES, title |-> title,
     url |-> IF host = <<>> THEN <<>>
             ELSE <<104, 116, 116, 112, 115, 58, 47, 47>> \o host \o <<47>>
                 \o id,
     stickied |-> stickied, over_18 |-> over18, spoiler |-> FALSE,
     author |-> "u1", ups |-> 7]

\* "i.redd.it", "v.redd.it", "preview.redd.it" and "imgur.com"
I_REDD_IT == <<105, 46, 114, 101, 100, 100, 46, 105, 116>>

V_REDD_IT == <<118, 46, 114, 101, 100, 100, 46, 105, 116>>

PREVIEW_REDD_IT == <<112, 114, 101, 118, 105, 101, 119, 46, 114, 101, 100,
                     100, 46, 105, 116>>

IMGUR_COM == <<105, 109, 103, 117, 114, 46, 99, 111, 109>>

\* the posts a1 .. g7: two that pass the filter, a stickied one, one that
\* is over 18, one without title, one of another host, one without url
RedditPosts ==
    {RedditPost(<<97, 49>>, I_REDD_IT, "A", FALSE, FALSE),
     RedditPost(<<98, 50>>, V_REDD_IT, "B", FALSE, FALSE),
     RedditPost(<<99, 51>>, PREVIEW_REDD_IT, "C", TRUE, FALSE),
     RedditPost(<<100, 52>>, I_REDD_IT, "D", FALSE, TRUE),
     RedditPost(<<101, 53>>, I_REDD_IT, "", FALSE, FALSE),
     RedditPost(<<102, 54>>, IMGUR_COM, "F", FALSE, FALSE),
     RedditPost(<<103, 55>>, <<>>, "G", FALSE, FALSE)}

\* a fallback item; author "" is an item without author
FallbackItem(id, author) ==
    [postLink |-> <<104, 116, 116, 112, 115, 58, 47, 47, 114, 101, 100, 100,
                    46, 105, 116, 47>>
        \o id,
     subreddit |-> MEMES, title |-> "H",
     url |-> <<104, 116, 116, 112, 115, 58, 47, 47>> \o I_REDD_IT \o <<47>>
         \o id,
     nsfw |-> FALSE, spoiler |-> FALSE, author |-> author, ups |-> 3]

\* the item h8
FallbackItems == {FallbackItem(<<104, 56>>, "")}

\* the shapes of a JSON body: null; an object in which the list
\* (data.children / memes) is missing or falsy; an object in which it is
\* truthy and not an array; an object that carries the list
BodyShapes == {"null", "object", "notArray", "list"}

\* A response: the transport fails (fetch rejects, error is the message
\* of the library's error), or a status arrives with a body: text is what
\* response.text() gives; the body is not JSON (shape "none", error is the
\* message response.json() rejects with) or is JSON of one of the shapes.
\* The items of a list are objects of the source's format.
Response(net, status, text, json, shape, list, error) ==
    [net |-> net, status |-> status, text |-> text, json |-> json,
     shape |-> shape, list |-> list, error |-> error]

\* the answers of the source at origin: a rejected fetch, the statuses
\* with the body {}, and with status 200 a page that is no JSON, the JSON
\* bodies without a list, and the lists of up to MaxChildren of Items
Responses(statuses, Items, origin) ==
    {Response(FALSE, 0, "", FALSE, "none", <<>>,
              "request to " \o origin
                  \o " failed, reason: connect ECONNREFUSED")}
    \cup {Response(TRUE, st, "{}", TRUE, "object", <<>>, "") :
             st \in statuses}
    \cup {Response(TRUE, 200, "<html>", FALSE, "none", <<>>,
                   "invalid json response body at " \o origin
                       \o " reason: Unexpected token < in JSON at position 0")}
    \cup {Response(TRUE, 200, "", TRUE, sh, <<>>, "") :
             sh \in BodyShapes \ {"list"}}
    \cup {Response(TRUE, 200, "", TRUE, "list", l, "") :
             l \in Strings(Items, MaxChildren)}

\* REDDIT_API_BASE
REDDIT_API_BASE == "https://www.reddit.com/r"

\* the base of the url of the fallback source
MEME_API_BASE == "https://meme-api.com/gimme"

RedditResponses == Responses({403, 500}, RedditPosts, REDDIT_API_BASE)

FallbackResponses == Responses({503}, FallbackItems, MEME_API_BASE)

\* response.ok
ResponseOk(resp) == resp.status >= 200 /\ resp.status <= 299

(***************************************************************************)
(* Requests                                                                *)
(***************************************************************************)
NoBody == [empty |-> TRUE]

\* pc: "idle"; "reddit" (awaiting the primary); "fallback" (awaiting the
\* secondary); "hit", "stored", "threw" (fetchMemes has settled with the
\* cached result, with the result it stored, or with the error thrown, and
\* the handler has not resumed from `await fetchMemes` yet); "done".
\* calls: the outbound calls issued, in order.  result and thrown: what
\* fetchMemes returned or threw.  History kept for the properties: entered
\* (fetchMemes was called), lookups (cache lookups made), hit, fetchedAt
\* (when this request's fetch succeeded and was stored, -1 if it has not).
IdleReq ==
    [pc |-> "idle", method |-> "", subreddit |-> <<>>, count |-> NaN,
     cacheKey |-> <<>>,
     entered |-> FALSE, lookups |-> 0, hit |-> FALSE, calls |-> <<>>,
     status |-> 0, body |-> NoBody, result |-> NoResult, thrown |-> "",
     fetchedAt |-> 0 - 1]

\* res.status(st).json(body) / res.status(st).end()
Respond(rq, st, body) ==
    [rq EXCEPT !.pc = "done", !.status = st, !.body = body]

\* mutant: the catch block logs the error and sends nothing
Respond500_NoResponse(rq, message) == [rq EXCEPT !.pc = "lost"]

\* the handler's catch block
Respond500(rq, message) ==
    Respond(rq, 500, [error |-> "Internal server error", message |-> message])

NotFoundBody ==
    [error |-> "No memes found for this subreddit", count |-> 0,
     memes |-> <<>>]

\* handler after `await fetchMemes` returned: 404 on an empty list, else
\* 200
RespondResult(rq, result) ==
    IF Len(result.memes) = 0
    THEN Respond(rq, 404, NotFoundBody)
    ELSE Respond(rq, 200, result)

\* fetchMemes returns result: its promise is fulfilled, the handler resumes
\* later
Return(rq, pc, result) == [rq EXCEPT !.pc = pc, !.result = result]

\* fetchMemes throws (its count check, or the error of the fallback that
\* it rethrows): its promise is rejected, the handler's catch runs later
Throw(rq, message) == [rq EXCEPT !.pc = "threw", !.thrown = message]

\* the handler resumes from `await fetchMemes` (give.js 225-243)
AfterFetchMemes(rq) ==
    IF rq.pc = "threw" THEN Respond500(rq, rq.thrown)
    ELSE RespondResult(rq, rq.result)

\* Math.min(count * 2, 100)
RedditLimit(count) ==
    IF count.nan THEN NaN
    ELSE IF count.val * 2 < 100 THEN Num(count.val * 2) ELSE Num(100)

RedditCall(subreddit, count) ==
    [src |-> "reddit", subreddit |-> subreddit, n |-> RedditLimit(count)]

FallbackCall(subreddit, count) ==
    [src |-> "fallback", subreddit |-> subreddit, n |-> count]

\* mutant: the primary source is called although the cache answered
fetchMemes_CallAfterHit(rq, c, t) ==
    IF CountOutOfRange(rq.count)
    THEN [req |-> Throw([rq EXCEPT !.entered = TRUE],
                        "Count must be between 1 and 100"),
          cache |-> c]
    ELSE LET key == getCachedKey(rq.subreddit, rq.count)
             got == getFromCache(c, key, t)
             r1  == [rq EXCEPT !.entered = TRUE, !.cacheKey = key,
                               !.lookups = 1, !.hit = got.found,
                               !.calls = <<RedditCall(rq.subreddit, rq.count)>>]
         IN  IF got.found
             THEN [req |-> Return(r1, "hit", got.data), cache |-> got.cache]
             ELSE [req |-> [r1 EXCEPT !.pc = "reddit"], cache |-> got.cache]

\* fetchMemes up to its first await: the count check, the cache lookup,
\* on a hit the return of the cached result and on a miss the call to the
\* primary source
fetchMemes(rq, c, t) ==
    IF CountOutOfRange(rq.count)
    THEN [req |-> Throw([rq EXCEPT !.entered = TRUE],
                        "Count must be between 1 and 100"),
          cache |-> c]
    ELSE LET key == getCachedKey(rq.subreddit, rq.count)
             got == getFromCache(c, key, t)
             r1  == [rq EXCEPT !.entered = TRUE, !.cacheKey = key,
                               !.lookups = 1, !.hit = got.found]
         IN  IF got.found
             THEN [req |-> Return(r1, "hit", got.data), cache |-> got.cache]
             ELSE [req |-> [r1 EXCEPT !.pc = "reddit",
                               !.calls = <<RedditCall(rq.subreddit, rq.count)>>],
                   cache |-> got.cache]

\* mutant: no preflight branch, OPTIONS is a method like any other
handler_NoPreflight(rq, method, parts, c, t) ==
    LET r0 == [rq EXCEPT !.method = method]
        p  == ParsePath(parts)
        r1 == [r0 EXCEPT !.subreddit = p.subreddit, !.count = p.count]
    IN  IF method # "GET"
        THEN [req |-> Respond(r0, 405, [error |-> "Method not allowed"]),
              cache |-> c]
        ELSE IF Validate(p) = "badCount"
        THEN [req |-> Respond(r1, 400,
                         [error |-> "Count must be between 1 and 100"]),
              cache |-> c]
        ELSE IF Validate(p) = "badSubreddit"
        THEN [req |-> Respond(r1, 400, [error |-> "Invalid subreddit name"]),
              cache |-> c]
        ELSE fetchMemes(r1, c, t)

\* the handler from its entry to its first await (`await fetchMemes`, with
\* fetchMemes run to its own first await or to its return) or to its
\* response
handler(rq, method, parts, c, t) ==
    LET r0 == [rq EXCEPT !.method = method]
        p  == ParsePath(parts)
        r1 == [r0 EXCEPT !.subreddit = p.subreddit, !.count = p.count]
    IN  IF method = "OPTIONS"
        THEN [req |-> Respond(r0, 200, NoBody), cache |-> c]
        ELSE IF method # "GET"
        THEN [req |-> Respond(r0, 405, [error |-> "Method not allowed"]),
              cache |-> c]
        ELSE IF Validate(p) = "badCount"
        THEN [req |-> Respond(r1, 400,
                         [error |-> "Count must be between 1 and 100"]),
              cache |-> c]
        ELSE IF Validate(p) = "badSubreddit"
        THEN [req |-> Respond(r1, 400, [error |-> "Invalid subreddit name"]),
              cache |-> c]
        ELSE fetchMemes(r1, c, t)

(***************************************************************************)
(* fetchFromReddit after its awaits (give.js 68-122)                       *)
(***************************************************************************)
\* url.includes(host): host occurs in url as a substring
Includes(url, host) ==
    \E i \in 0..(Len(url) - Len(host)) :
        SubSeq(url, i + 1, i + Len(host)) = host

RedditFilter(post) ==
    /\ post.url # <<>>
    /\ \/ Includes(post.url, I_REDD_IT)
       \/ Includes(post.url, V_REDD_IT)
       \/ Includes(post.url, PREVIEW_REDD_IT)
    /\ ~post.stickied
    /\ ~post.over_18
    /\ post.title # ""

\* mutant: nothing is cut off
JsSlice_All(list, count) == list

\* array.slice(0, count): NaN counts as 0, a negative count from the end
JsSlice(list, count) ==
    LET e == IF count.nan THEN 0
             ELSE IF count.val < 0
                  THEN (IF Len(list) + count.val < 0 THEN 0
                        ELSE Len(list) + count.val)
             ELSE IF count.val > Len(list) THEN Len(list) ELSE count.val
    IN  SubSeq(list, 1, e)

RedditMeme(post) ==
    [postLink |-> <<104, 116, 116, 112, 115, 58, 47, 47, 114, 101, 100, 100,
                    46, 105, 116, 47>>
        \o post.id,
     subreddit |-> post.subreddit, title |-> post.title, url |-> post.url,
     nsfw |-> post.over_18, spoiler |-> post.spoiler,
     author |-> post.author, ups |-> post.ups]

\* the message of the error fetchFromReddit throws on resp, "" if none.
\* A rejected fetch and a body that is not JSON throw the library's error.
\* On the body null `data.data` throws, on a list that is no array
\* `.filter` does.
RedditFailure(resp) ==
    IF ~resp.net THEN resp.error
    ELSE IF ~ResponseOk(resp)
         THEN IF resp.status = 403
              THEN "Reddit is temporarily blocking requests. This is a "
                   \o "known issue with Reddit's API restrictions. Please "
                   \o "try again later or consider using alternative meme "
                   \o "sources."
              ELSE "Reddit API error: " \o ToString(resp.status) \o " - "
                   \o resp.text
    ELSE IF ~resp.json THEN resp.error
    ELSE IF resp.shape = "null"
         THEN "Cannot read properties of null (reading 'data')"
    ELSE IF resp.shape = "object" THEN "Invalid Reddit response"
    ELSE IF resp.shape = "notArray"
         THEN "data.data.children.filter is not a function"
    ELSE ""

\* the result built from a body that carries the list
RedditResult(resp, count) ==
    LET kept == JsSlice(SelectSeq(resp.list, RedditFilter), count)
        memes == [i \in 1..Len(kept) |-> RedditMeme(kept[i])]
    IN  [count |-> Len(memes), memes |-> memes]

\* mutant: an empty result of the primary source is taken as a failure
OnReddit_FallbackOnEmpty(rq, resp, c, t) ==
    IF RedditFailure(resp) # ""
       \/ RedditResult(resp, rq.count).memes = <<>>
    THEN [req |-> [rq EXCEPT !.pc = "fallback",
                             !.calls = Append(rq.calls,
                                  FallbackCall(rq.subreddit, rq.count))],
          cache |-> c]
    ELSE LET result == RedditResult(resp, rq.count)
         IN  [req |-> Return([rq EXCEPT !.fetchedAt = t], "stored", result),
              cache |-> setCache(c, rq.cacheKey, result, t)]

\* the rest of fetchFromReddit and of fetchMemes once the primary has
\* answered: store and return, or (catch) call the fallback
OnReddit(rq, resp, c, t) ==
    IF RedditFailure(resp) # ""
    THEN [req |-> [rq EXCEPT !.pc = "fallback",
                             !.calls = Append(rq.calls,
                                  FallbackCall(rq.subreddit, rq.count))],
          cache |-> c]
    ELSE LET result == RedditResult(resp, rq.count)
         IN  [req |-> Return([rq EXCEPT !.fetchedAt = t], "stored", result),
              cache |-> setCache(c, rq.cacheKey, result, t)]

(***************************************************************************)
(* fetchFallbackMemes after its awaits (give.js 129-163)                   *)
(***************************************************************************)
FallbackMeme(meme) ==
    [meme EXCEPT !.author = IF meme.author = "" THEN "unknown"
                            ELSE meme.author]

\* "https://i.imgflip.com/3i7p.jpg"
IMGFLIP_URL ==
    <<104, 116, 116, 112, 115, 58, 47, 47, 105, 46, 105, 109, 103, 102, 108,
      105, 112, 46, 99, 111, 109, 47, 51, 105, 55, 112, 46, 106, 112, 103>>

\* the placeholder item; its postLink is "#"
Placeholder(subreddit) ==
    [postLink |-> <<35>>, subreddit |-> subreddit,
     title |-> "Meme temporarily unavailable",
     url |-> IMGFLIP_URL,
     nsfw |-> FALSE, spoiler |-> FALSE, author |-> "fallback", ups |-> 0]

\* the TypeError of `data.memes ? data.memes.map(...)`, "" if none: on the
\* body null `data.memes` throws, on a truthy memes that is no array
\* `.map` does
FallbackBodyError(resp) ==
    IF resp.shape = "null"
    THEN "Cannot read properties of null (reading 'memes')"
    ELSE IF resp.shape = "notArray"
    THEN "data.memes.map is not a function"
    ELSE ""

\* mutant: response.ok is not looked at
FallbackFailure_NoStatusCheck(resp) ==
    IF ~resp.net THEN resp.error
    ELSE IF ~resp.json THEN resp.error
    ELSE FallbackBodyError(resp)

\* the message of the error fetchFallbackMemes throws on resp, "" if none
FallbackFailure(resp) ==
    IF ~resp.net THEN resp.error
    ELSE IF ~ResponseOk(resp)
         THEN "Both Reddit and fallback meme APIs are unavailable"
    ELSE IF ~resp.json THEN resp.error
    ELSE FallbackBodyError(resp)

\* data.memes ? data.memes.map(...) : [placeholder], for a body on which
\* it does not throw: an array is truthy, also the empty one
FallbackMemes(resp, subreddit) ==
    IF resp.shape = "list"
    THEN [i \in 1..Len(resp.list) |-> FallbackMeme(resp.list[i])]
    ELSE <<Placeholder(subreddit)>>

\* the result built from a body on which the mapping does not throw
FallbackResult(resp, subreddit, count) ==
    LET memes == FallbackMemes(resp, subreddit)
    IN  [count |-> Len(memes), memes |-> JsSlice(memes, count)]

\* mutant: a failed fallback fetch stores an empty result
OnFallback_StoreOnFailure(rq, resp, c, t) ==
    IF FallbackFailure(resp) # ""
    THEN [req |-> Throw(rq, FallbackFailure(resp)),
          cache |-> setCache(c, rq.cacheKey, [count |-> 0, memes |-> <<>>], t)]
    ELSE LET result == FallbackResult(resp, rq.subreddit, rq.count)
         IN  [req |-> Return([rq EXCEPT !.fetchedAt = t], "stored", result),
              cache |-> setCache(c, rq.cacheKey, result, t)]

\* the rest of fetchFallbackMemes and of fetchMemes once the fallback has
\* answered: store and return, or throw (fetchMemes logs and rethrows, the
\* handler's catch runs when the handler resumes)
OnFallback(rq, resp, c, t) ==
    IF FallbackFailure(resp) # ""
    THEN [req |-> Throw(rq, FallbackFailure(resp)), cache |-> c]
    ELSE LET result == FallbackResult(resp, rq.subreddit, rq.count)
         IN  [req |-> Return([rq EXCEPT !.fetchedAt = t], "stored", result),
              cache |-> setCache(c, rq.cacheKey, result, t)]

(***************************************************************************)
(* The system: requests interleave at their awaits                         *)
(***************************************************************************)
\* the main specification starts MaxRequests requests; the concurrency
\* specification one more, all for the same resource
Requests == 1..(MaxRequests + 1)

Methods == {"GET", "OPTIONS", "POST"}

\* the paths of the requests of the main specification: none, one, two and
\* three segments, a count that is in range, out of range and not a
\* number, a subreddit that matches and one that does not:
\* /give, /give/memes/1, /give/x/x, /give/0, /give/-, /give//1 and
\* /give/memes/1/1
Paths ==
    {<<>>,
     <<MEMES, <<49>> >>,
     << <<120>>, <<120>> >>,
     << <<48>> >>,
     << <<45>> >>,
     << <<>>, <<49>> >>,
     <<MEMES, <<49>>, <<49>> >>}

\* the paths of the concurrency specification: one resource, two spellings
SamePaths == {<<>>, <<MEMES, <<49>> >>}

\* the instants the clock shows: the start, the last millisecond of an
\* entry stored at 0, and the first millisecond after it
Times == {0, CACHE_DURATION - 1, CACHE_DURATION}

NoRequest == [method |-> "", parts |-> <<>>, at |-> 0]

Init ==
    /\ now = 0
    /\ cache = EmptyCache
    /\ req = [r \in Requests |-> IdleReq]
    /\ started = 0
    /\ last = NoRequest
    /\ pathParts = <<>>
    /\ parsed = NotParsed

\* a request arrives and runs to its first await or to its response: that
\* is where handler(req, res) returns to its caller;
\* last is the request that arrived last, and when
Start(limit, method, parts) ==
    /\ started < limit
    /\ LET h == handler(IdleReq, method, parts, cache, now)
       IN  /\ req' = [req EXCEPT ![started + 1] = h.req]
           /\ cache' = h.cache
    /\ started' = started + 1
    /\ last' = [method |-> method, parts |-> parts, at |-> now]
    /\ UNCHANGED <<now, pathParts, parsed>>

\* the primary source answers request r
RedditResponds(r, resp) ==
    /\ req[r].pc = "reddit"
    /\ LET h == OnReddit(req[r], resp, cache, now)
       IN  /\ req' = [req EXCEPT ![r] = h.req]
           /\ cache' = h.cache
    /\ UNCHANGED <<now, started, last, pathParts, parsed>>

\* the fallback source answers request r
FallbackResponds(r, resp) ==
    /\ req[r].pc = "fallback"
    /\ LET h == OnFallback(req[r], resp, cache, now)
       IN  /\ req' = [req EXCEPT ![r] = h.req]
           /\ cache' = h.cache
    /\ UNCHANGED <<now, started, last, pathParts, parsed>>

\* request r, whose fetchMemes has settled, resumes from its await
Resume(r) ==
    /\ req[r].pc \in {"hit", "stored", "threw"}
    /\ req' = [req EXCEPT ![r] = AfterFetchMemes(req[r])]
    /\ UNCHANGED <<now, cache, started, last, pathParts, parsed>>

\* Date.now() moves on
Tick(t) ==
    /\ t > now
    /\ now' = t
    /\ UNCHANGED <<cache, req, started, last, pathParts, parsed>>

Next ==
    \/ \E m \in Methods, parts \in Paths : Start(MaxRequests, m, parts)
    \/ \E r \in Requests, resp \in RedditResponses :
          RedditResponds(r, resp)
    \/ \E r \in Requests, resp \in FallbackResponses :
          FallbackResponds(r, resp)
    \/ \E r \in Requests : Resume(r)
    \/ \E t \in Times : Tick(t)

Spec == Init /\ [][Next]_vars

(***************************************************************************)
(* The specification with answering sources: every outbound call that is   *)
(* open is eventually answered, by a response or by an error, and the      *)
(* continuation of a settled promise is eventually run                     *)
(***************************************************************************)
SourcesAnswer ==
    \A r \in Requests :
        /\ WF_vars(\E resp \in RedditResponses : RedditResponds(r, resp))
        /\ WF_vars(\E resp \in FallbackResponses : FallbackResponds(r, resp))

ContinuationsRun == \A r \in Requests : WF_vars(Resume(r))

SpecLive == Spec /\ SourcesAnswer /\ ContinuationsRun

(***************************************************************************)
(* The concurrency specification: MaxRequests + 1 GET requests for the     *)
(* default resource, interleaved at their awaits                           *)
(***************************************************************************)
\* the answers of the primary source in the concurrency specification:
\* every failure, and the lists of at most one post
SameRedditResponses ==
    {resp \in RedditResponses : Len(resp.list) <= 1}

NextSame ==
    \/ \E parts \in SamePaths : Start(MaxRequests + 1, "GET", parts)
    \/ \E r \in Requests, resp \in SameRedditResponses :
          RedditResponds(r, resp)
    \/ \E r \in Requests, resp \in FallbackResponses :
          FallbackResponds(r, resp)
    \/ \E r \in Requests : Resume(r)
    \/ \E t \in Times : Tick(t)

SpecSame == Init /\ [][NextSame]_vars

(***************************************************************************)
(* The keys specification: GET requests for resources whose names and      *)
(* counts share characters: a1/1, a/11 and a_1/1                           *)
(***************************************************************************)
KeyPaths ==
    {<< <<97, 49>>, <<49>> >>,
     << <<97>>, <<49, 49>> >>,
     << <<97, 95, 49>>, <<49>> >> }

NextKeys ==
    \/ \E parts \in KeyPaths : Start(MaxRequests, "GET", parts)
    \/ \E r \in Requests, resp \in RedditResponses :
          RedditResponds(r, resp)
    \/ \E r \in Requests, resp \in FallbackResponses :
          FallbackResponds(r, resp)
    \/ \E r \in Requests : Resume(r)
    \/ \E t \in Times : Tick(t)

SpecKeys == Init /\ [][NextKeys]_vars

(***************************************************************************)
(* The parsing specification                                               *)
(***************************************************************************)
InitParse ==
    /\ now = 0
    /\ cache = EmptyCache
    /\ req = [r \in Requests |-> IdleReq]
    /\ started = 0
    /\ last = NoRequest
    /\ pathParts \in ParseInputs
    /\ parsed = NotParsed

ParseRequest ==
    /\ ~parsed.done
    /\ parsed' = ParsedOf(pathParts)
    /\ UNCHANGED <<now, cache, req, started, last, pathParts>>

NextParse == ParseRequest

SpecParse == InitParse /\ [][NextParse]_vars

(***************************************************************************)
(* What the claims speak of                                                *)
(***************************************************************************)
\* the window of the cache, 300 s in milliseconds
TTL == 300 * 1000

\* an integer in [1,100]
CountInRange(count) == ~count.nan /\ count.val >= 1 /\ count.val <= 100

\* a non-empty string over [A-Za-z0-9_]
WordString(str) ==
    str # <<>> /\ \A i \in 1..Len(str) : str[i] \in WordChars

\* a step in which a request arrives, and that request
Arrives == started' = started + 1

Arrived == req'[started']

\* the outbound calls and the cache operations of a request
NoOutboundCall(rq) == rq.calls = <<>>

NoCacheAccess(rq) == rq.lookups = 0 /\ rq.fetchedAt < 0

(* C1: every GET request whose count is not in [1,100] is answered 400,   *)
(* issues no outbound call and performs no cache lookup or store.          *)
C1_BadCountRejected ==
    \A r \in Requests :
        (req[r].method = "GET" /\ ~CountInRange(req[r].count))
        => /\ req[r].status = 400
           /\ NoOutboundCall(req[r])
           /\ NoCacheAccess(req[r])

(* C2: fetchMemes is entered only with a count that is an integer in       *)
(* [1,100] and a subreddit matching ^[A-Za-z0-9_]+$, whatever the path     *)
(* segments are.                                                           *)
C2_PipelineOnlyValidParams ==
    \A r \in Requests :
        req[r].entered
        => CountInRange(req[r].count) /\ WordString(req[r].subreddit)

(* C3: a GET request whose subreddit is empty or has a character outside   *)
(* [A-Za-z0-9_] is answered 400 in the step in which it arrives, issues no *)
(* outbound call and leaves the cache as it was.                           *)
C3_BadSubredditRejected ==
    [][(Arrives /\ Arrived.method = "GET" /\ ~WordString(Arrived.subreddit))
       => /\ Arrived.pc = "done"
          /\ Arrived.status = 400
          /\ NoOutboundCall(Arrived)
          /\ NoCacheAccess(Arrived)
          /\ cache' = cache]_vars

\* a request with a bad subreddit was rejected while the cache held an entry
C3_Witness ==
    \E r \in Requests :
        /\ req[r].method = "GET"
        /\ ~WordString(req[r].subreddit)
        /\ req[r].status = 400
        /\ DOMAIN cache # {}

(* C4 as stated: once a request has completed a successful fetch for its   *)
(* params at time t, every later request with the same params that starts  *)
(* less than 300 s after t returns the payload the cache stores for them   *)
(* and issues no outbound call, and the first one that starts 300 s or     *)
(* more after t calls the primary source again.                            *)
Fetched(a) == req[a].fetchedAt >= 0

SameParams(a, rq) ==
    req[a].subreddit = rq.subreddit /\ req[a].count = rq.count

CallsPrimary(rq) ==
    ~rq.hit /\ rq.calls # <<>> /\ rq.calls[1].src = "reddit"

\* no request has started 300 s or more after t yet
NoneStartedSince(t) == last.at - t < TTL

C4_AnyFetchFixesTheWindow ==
    [][(Arrives /\ Arrived.entered)
       => \A a \in Requests :
            (Fetched(a) /\ SameParams(a, Arrived))
            => /\ (now - req[a].fetchedAt < TTL)
                  => /\ Arrived.hit
                     /\ NoOutboundCall(Arrived)
                     /\ Arrived.cacheKey \in DOMAIN cache
                     /\ Arrived.result = cache[Arrived.cacheKey].data
               /\ (now - req[a].fetchedAt >= TTL
                     /\ NoneStartedSince(req[a].fetchedAt))
                  => CallsPrimary(Arrived)]_vars

(* C4, amended: the window is that of the fetch stored last. If t is the   *)
(* time of the latest successful fetch for the params of an arriving       *)
(* request, then with now - t < 300 s the request returns the payload      *)
(* stored at t and issues no outbound call, and with now - t >= 300 s it   *)
(* calls the primary source again.                                         *)
Writers(rq) == {a \in Requests : Fetched(a) /\ SameParams(a, rq)}

LatestStore(rq) ==
    CHOOSE t \in {req[a].fetchedAt : a \in Writers(rq)} :
        \A a \in Writers(rq) : req[a].fetchedAt <= t

C4_LatestFetchFixesTheWindow ==
    [][(Arrives /\ Arrived.entered /\ Writers(Arrived) # {})
       => LET t == LatestStore(Arrived)
          IN  /\ (now - t < TTL)
                 => /\ Arrived.hit
                    /\ NoOutboundCall(Arrived)
                    /\ \E a \in Writers(Arrived) :
                          /\ req[a].fetchedAt = t
                          /\ Arrived.result = req[a].result
              /\ (now - t >= TTL) => CallsPrimary(Arrived)]_vars

\* one request was served from the entry another one stored, and a third
\* one, arriving when that entry was 300 s old, called the primary source
C4_Witness ==
    \E a \in Requests, b \in Requests :
        /\ Fetched(a) /\ req[a].fetchedAt = 0
        /\ b # a /\ req[b].hit /\ req[b].result = req[a].result
        /\ started \notin {a, b}
        /\ started > 0
        /\ SameParams(a, req[started])
        /\ last.at = TTL
        /\ CallsPrimary(req[started])

(* C5: whenever the primary source fails on a cache miss the fallback is   *)
(* invoked, and whenever the fallback then answers with a success status   *)
(* (and a JSON body) fetchMemes returns the fallback's result or the       *)
(* placeholder, at least one item, and the handler, when it resumes,       *)
(* responds 200 with it; the primary's error message is never in the       *)
(* response.                                                               *)
PrimaryFails(resp) ==
    ~resp.net \/ resp.status < 200 \/ resp.status > 299 \/ ~resp.json
    \/ resp.shape # "list"

SuccessStatus(resp) == resp.net /\ resp.status >= 200 /\ resp.status <= 299

C5_FallbackAnswers200 ==
    [][/\ \A r \in Requests, resp \in RedditResponses :
            (RedditResponds(r, resp) /\ PrimaryFails(resp))
            => /\ req'[r].pc = "fallback"
               /\ req'[r].calls[Len(req'[r].calls)].src = "fallback"
       /\ \A r \in Requests, resp \in FallbackResponses :
            (FallbackResponds(r, resp) /\ SuccessStatus(resp) /\ resp.json)
            => /\ req'[r].pc = "stored"
               /\ Len(req'[r].result.memes) >= 1
       /\ \A r \in Requests :
            (Resume(r) /\ req[r].pc = "stored" /\ Len(req[r].calls) = 2)
            => /\ req'[r].status = 200
               /\ req'[r].body = req[r].result
               /\ "message" \notin DOMAIN req'[r].body]_vars

(* C6: when the primary source has failed on a cache miss and the fallback *)
(* fails too (transport error or non-success status), fetchMemes throws,   *)
(* nothing is stored, and the response, sent when the handler resumes, is  *)
(* 500 with an error field and a message field, the message being that of  *)
(* the error thrown; no 200 or 404 is produced for that request.           *)
C6_BothFail500 ==
    [][/\ \A r \in Requests, resp \in FallbackResponses :
            (FallbackResponds(r, resp) /\ ~SuccessStatus(resp))
            => /\ req'[r].pc = "threw"
               /\ req'[r].thrown # ""
               /\ req'[r].status = 0
               /\ cache' = cache
       /\ \A r \in Requests :
            (req[r].pc = "threw" /\ req'[r] # req[r])
            => /\ req'[r].pc = "done"
               /\ req'[r].status = 500
               /\ DOMAIN req'[r].body = {"error", "message"}
               /\ req'[r].body.error = "Internal server error"
               /\ req'[r].body.message = req[r].thrown
       /\ \A r \in Requests :
            (req[r].pc = "done" /\ req[r].status = 500)
            => req'[r] = req[r]]_vars

\* a request called both sources and was answered 500
C6_Witness ==
    \E r \in Requests :
        /\ req[r].pc = "done"
        /\ Len(req[r].calls) = 2
        /\ req[r].status = 500
        /\ req[r].body.message =
              "Both Reddit and fallback meme APIs are unavailable"

(* C7: whenever the fallback fetch succeeds its ResultSet has at least one *)
(* meme, so a request served through the fallback never ends in 404.       *)
ServedByFallback(rq) == Len(rq.calls) = 2 /\ rq.fetchedAt >= 0

C7_FallbackNeverEmpty ==
    \A r \in Requests :
        ServedByFallback(req[r])
        => Len(req[r].result.memes) >= 1 /\ req[r].status # 404

\* a request was served by the fallback with a result
C7_Witness ==
    \E r \in Requests : ServedByFallback(req[r]) /\ req[r].status = 200

(* C8: for a count c in [1,100] and a subreddit s over [A-Za-z0-9_], the   *)
(* two segments (s, decimal text of c) are parsed to exactly (s, c), and   *)
(* that pair goes to the fetch pipeline.                                   *)
C8_TwoSegmentsParseToThePair ==
    \A c \in 1..100 :
        (/\ parsed.done
         /\ Len(pathParts) = 2
         /\ WordString(pathParts[1])
         /\ pathParts[2] = Decimal(c))
        => /\ parsed.subreddit = pathParts[1]
           /\ parsed.count = Num(c)
           /\ parsed.outcome = "fetch"

\* the path a_1/100 has been parsed
C8_Witness ==
    /\ parsed.done
    /\ pathParts = << <<97, 95, 49>>, <<49, 48, 48>> >>
    /\ parsed.count = Num(100)
    /\ parsed.outcome = "fetch"

\* digits only: the segment denotes the integer its digits spell
PlainDecimal(p) == p # <<>> /\ AllIn(p, DigitSet)

\* digit e digit: the segment denotes the first digit times a power of ten
ExponentForm(p) ==
    Len(p) = 3 /\ p[1] \in DigitSet /\ p[2] = 101 /\ p[3] \in DigitSet

(* C9: a single segment p that is numeric is parsed to (memes, the value   *)
(* of p), any other p to (p, 1): what the numeric test accepts, the        *)
(* conversion turns into that number, never into another one or into none. *)
C9_OneSegmentNumericOrName ==
    (parsed.done /\ Len(pathParts) = 1)
    => LET p == pathParts[1]
       IN  IF isNaN(p)
           THEN parsed.subreddit = p /\ parsed.count = Num(1)
           ELSE /\ parsed.subreddit = MEMES
                /\ ~parsed.count.nan
                /\ PlainDecimal(p)
                       => parsed.count = Num(DigitsValue(p, 10, 0))
                /\ ExponentForm(p)
                       => parsed.count
                            = Num(DigitVal(p[1]) * 10 ^ DigitVal(p[3]))

(* C10: in every cache state and at every time, a GET request with no      *)
(* segment and one with the segments (memes, 1) do the same: the same      *)
(* params, cache key, cache effect, outbound call and response. The state  *)
(* they leave is the same, so what follows (the answers of the sources) is *)
(* the same too.                                                           *)
C10_NoSegmentIsMemesOne ==
    handler(IdleReq, "GET", <<>>, cache, now)
        = handler(IdleReq, "GET", <<MEMES, <<49>> >>, cache, now)

\* a request with no segment arrived last and was served from the entry
\* that an earlier request stored
C10_Witness ==
    /\ last.method = "GET"
    /\ last.parts = <<>>
    /\ started >= 2
    /\ req[started].hit
    /\ req[started].status = 200
    /\ req[started].subreddit = MEMES
    /\ req[started].count = Num(1)

(* C11: a request with method OPTIONS is answered, in the step in which it *)
(* arrives, 200 with an empty body, whatever its path segments; it issues  *)
(* no outbound call, does no cache lookup or store and leaves the cache as *)
(* it was.                                                                 *)
C11_OptionsAlways200 ==
    [][(Arrives /\ Arrived.method = "OPTIONS")
       => /\ Arrived.pc = "done"
          /\ Arrived.status = 200
          /\ Arrived.body = [empty |-> TRUE]
          /\ NoOutboundCall(Arrived)
          /\ NoCacheAccess(Arrived)
          /\ ~Arrived.entered
          /\ cache' = cache]_vars

\* an OPTIONS request whose segment is a count out of range arrived last,
\* while the cache held an entry, and was answered 200
C11_Witness ==
    /\ started >= 1
    /\ last.method = "OPTIONS"
    /\ last.parts = << <<48>> >>
    /\ req[started].method = "OPTIONS"
    /\ req[started].status = 200
    /\ DOMAIN cache # {}

(* C12: when the primary source answers with a success status and a valid *)
(* envelope of which no item passes the filter, fetchMemes returns the     *)
(* empty result in that step, and the request ends, when its handler       *)
(* resumes, with 404 and the body {error, count: 0, memes: []}, having     *)
(* called the primary source only; a request whose fetchMemes has settled  *)
(* or that has ended issues no call.                                       *)
NoCandidate(resp) ==
    /\ SuccessStatus(resp) /\ resp.json /\ resp.shape = "list"
    /\ \A i \in 1..Len(resp.list) : ~RedditFilter(resp.list[i])

NoCandidateResponses == {resp \in RedditResponses : NoCandidate(resp)}

C12_EmptyPrimaryIs404 ==
    [][/\ \A r \in Requests, resp \in NoCandidateResponses :
            (req[r].pc = "reddit" /\ req'[r].pc # "reddit"
                /\ RedditResponds(r, resp))
            => /\ req'[r].pc = "stored"
               /\ req'[r].result.memes = <<>>
               /\ Len(req'[r].calls) = 1
               /\ req'[r].calls[1].src = "reddit"
       /\ \A r \in Requests :
            (Resume(r) /\ req[r].pc = "stored" /\ req[r].result.memes = <<>>)
            => /\ req'[r].pc = "done"
               /\ req'[r].status = 404
               /\ DOMAIN req'[r].body = {"error", "count", "memes"}
               /\ req'[r].body.count = 0
               /\ req'[r].body.memes = <<>>
       /\ \A r \in Requests :
            req[r].pc \in {"hit", "stored", "threw", "done"}
            => req'[r].calls = req[r].calls]_vars

\* a request with a count in range was answered 404 after the primary
\* source alone had answered, with an envelope that was stored
C12_Witness ==
    \E r \in Requests :
        /\ req[r].pc = "done"
        /\ CountInRange(req[r].count)
        /\ req[r].status = 404
        /\ Len(req[r].calls) = 1
        /\ req[r].fetchedAt >= 0
        /\ req[r].result.memes = <<>>

(* C13: in every 200 response to a GET request whose count c is an        *)
(* integer in [1,100], the memes sequence has at most c items, whether it  *)
(* came from the primary source, the fallback source or the cache.         *)
C13_AtMostCountItems ==
    \A r \in Requests :
        (/\ req[r].pc = "done"
         /\ req[r].method = "GET"
         /\ req[r].status = 200
         /\ CountInRange(req[r].count))
        => Len(req[r].body.memes) <= req[r].count.val

\* the fallback source gave two items to a request for one, which was
\* answered 200 with one item, and a second request got that answer from
\* the cache
C13_Witness ==
    \E a \in Requests, b \in Requests :
        /\ a # b
        /\ ServedByFallback(req[a])
        /\ req[a].count = Num(1)
        /\ req[a].result.count = 2
        /\ req[a].status = 200
        /\ Len(req[a].body.memes) = 1
        /\ req[b].hit
        /\ req[b].status = 200
        /\ req[b].body = req[a].body

(* C14: within one request the outbound calls are the primary call, then  *)
(* at most the fallback call: a request that hit the cache has issued no   *)
(* call; the first call is issued on a cache miss and goes to the primary  *)
(* source; the only other call goes to the fallback source and is issued   *)
(* in the step in which the primary call of the same request fails; calls  *)
(* are never issued otherwise, and never while another one is open.        *)
CallOrder(rq) ==
    /\ Len(rq.calls) <= 2
    /\ Len(rq.calls) >= 1 => rq.calls[1].src = "reddit"
    /\ Len(rq.calls) = 2 => rq.calls[2].src = "fallback"
    /\ rq.hit => rq.calls = <<>>

FailingPrimaryResponses == {resp \in RedditResponses : PrimaryFails(resp)}

C14_CallsInOrder ==
    [][\A r \in Requests :
         /\ CallOrder(req'[r])
         /\ (req'[r].calls # req[r].calls)
            => \/ /\ req[r].pc = "idle"
                  /\ ~req'[r].hit
                  /\ req'[r].pc = "reddit"
                  /\ Len(req'[r].calls) = 1
               \/ /\ req[r].pc = "reddit"
                  /\ req'[r].pc = "fallback"
                  /\ Len(req[r].calls) = 1
                  /\ req'[r].calls = Append(req[r].calls, req'[r].calls[2])
                  /\ \E resp \in FailingPrimaryResponses :
                        RedditResponds(r, resp)]_vars

\* one request called the primary and then the fallback source, and
\* another one, served from the cache, called none
C14_Witness ==
    \E a \in Requests, b \in Requests :
        /\ req[a].pc = "done"
        /\ Len(req[a].calls) = 2
        /\ req[a].calls[1].src = "reddit"
        /\ req[a].calls[2].src = "fallback"
        /\ req[b].pc = "done"
        /\ req[b].hit
        /\ req[b].calls = <<>>

(* C15: the lookup a request makes on its key returns the stored payload  *)
(* and leaves the cache alone if the entry is younger than 300 s; if the   *)
(* entry is 300 s old or older (exactly 300 s included) the lookup reports *)
(* absent and removes that entry and no other; on an absent key it reports *)
(* absent and leaves the cache unchanged.                                  *)
C15_GetHonoursTheWindow ==
    [][(Arrives /\ Arrived.lookups = 1)
       => LET k == Arrived.cacheKey
          IN  IF k \notin DOMAIN cache
              THEN ~Arrived.hit /\ cache' = cache
              ELSE IF now - cache[k].timestamp < TTL
              THEN /\ Arrived.hit
                   /\ Arrived.result = cache[k].data
                   /\ cache' = cache
              ELSE /\ ~Arrived.hit
                   /\ Arrived.result # cache[k].data
                   /\ DOMAIN cache' = (DOMAIN cache) \ {k}
                   /\ \A j \in DOMAIN cache' : cache'[j] = cache[j]]_vars

\* a request looked up its key when the entry, stored at 0, was exactly
\* 300 s old: it missed, and the entry is gone
C15_Witness ==
    /\ started >= 2
    /\ now = TTL
    /\ last.at = TTL
    /\ req[started].lookups = 1
    /\ ~req[started].hit
    /\ req[started].pc = "reddit"
    /\ req[started].cacheKey \notin DOMAIN cache
    /\ \E a \in Requests :
          /\ a # started
          /\ req[a].fetchedAt = 0
          /\ req[a].cacheKey = req[started].cacheKey

(* C16: a cache entry is created or replaced only in the step that ends a *)
(* successful primary or fallback fetch (the fetcher stores and returns,   *)
(* the response follows), under the key of that request's                  *)
(* (subreddit, count), holding that fetch's result and the current time; a *)
(* step in which a request ends with 400, 405, 500 or the OPTIONS 200, and *)
(* the step in which the error behind a 500 is thrown, leave the cache as  *)
(* it was; an entry disappears only when an arriving request misses on its *)
(* own key.                                                                *)
Written(k) ==
    k \in DOMAIN cache' /\ (k \notin DOMAIN cache \/ cache'[k] # cache[k])

EndsFetch(r) ==
    /\ req[r].pc \in {"reddit", "fallback"}
    /\ req'[r].pc = "stored"
    /\ req'[r].fetchedAt = now

EndsWithoutFetch(r) ==
    /\ req[r].pc # "done"
    /\ req'[r].pc = "done"
    /\ \/ req'[r].status \in {400, 405, 500}
       \/ req'[r].method = "OPTIONS"

\* fetchMemes of request r throws: the request is going to end with 500
Throws(r) == req[r].pc # "threw" /\ req'[r].pc = "threw"

C16_OnlyFetchesStore ==
    [][/\ \A k \in DOMAIN cache' :
            Written(k)
            => \E r \in Requests :
                  /\ EndsFetch(r)
                  /\ k = getCachedKey(req[r].subreddit, req[r].count)
                  /\ cache'[k] = [data |-> req'[r].result, timestamp |-> now]
       /\ \A r \in Requests :
            (EndsWithoutFetch(r) \/ Throws(r)) => cache' = cache
       /\ \A k \in (DOMAIN cache) \ (DOMAIN cache') :
            Arrives /\ ~Arrived.hit /\ Arrived.cacheKey = k]_vars

\* a request stored an entry at 0; a second one for the same key arrived
\* when the entry had expired, removed it, and ended with 500 when both
\* sources had failed, leaving no entry
C16_Witness ==
    \E a \in Requests, b \in Requests :
        /\ a # b
        /\ req[a].fetchedAt = 0
        /\ req[b].cacheKey = req[a].cacheKey
        /\ req[b].lookups = 1
        /\ req[b].pc = "done"
        /\ req[b].status = 500
        /\ now = TTL
        /\ req[a].cacheKey \notin DOMAIN cache

(* C17: under every interleaving, after every step each cache entry holds *)
(* the whole result of one successful fetch for its own key together with  *)
(* the time of that write, and no fetch for that key was stored later; an  *)
(* entry changes only by being replaced as a whole by such a write; and a  *)
(* request served from the cache got the whole result of one fetch for its *)
(* key.                                                                    *)
WriteOf(a, k, entry) ==
    /\ Fetched(a)
    /\ req[a].cacheKey = k
    /\ entry.data = req[a].result
    /\ entry.timestamp = req[a].fetchedAt

EntriesWhole ==
    \A k \in DOMAIN cache :
        /\ DOMAIN cache[k] = {"data", "timestamp"}
        /\ DOMAIN cache[k].data = {"count", "memes"}
        /\ \E a \in Requests : WriteOf(a, k, cache[k])
        /\ \A b \in Requests :
              (Fetched(b) /\ req[b].cacheKey = k)
              => req[b].fetchedAt <= cache[k].timestamp

HitsWhole ==
    \A r \in Requests :
        req[r].hit
        => \E a \in Requests \ {r} :
              /\ Fetched(a)
              /\ req[a].cacheKey = req[r].cacheKey
              /\ req[r].result = req[a].result

C17_EntriesAreWholeWrites ==
    [][/\ EntriesWhole'
       /\ HitsWhole'
       /\ \A k \in (DOMAIN cache) \cap (DOMAIN cache') :
            cache'[k] # cache[k]
            => \E r \in Requests :
                  /\ EndsFetch(r)
                  /\ req[r].cacheKey = k
                  /\ cache'[k] = [data |-> req'[r].result,
                                  timestamp |-> now]]_vars

\* two requests missed together and fetched different results; the entry
\* holds the later one's, and a third request was served it
C17_Witness ==
    \E a \in Requests, b \in Requests, r \in Requests :
        /\ a # b /\ r # a /\ r # b
        /\ Fetched(a) /\ Fetched(b)
        /\ req[a].cacheKey = req[b].cacheKey
        /\ req[a].fetchedAt < req[b].fetchedAt
        /\ req[a].result # req[b].result
        /\ req[b].cacheKey \in DOMAIN cache
        /\ cache[req[b].cacheKey]
              = [data |-> req[b].result, timestamp |-> req[b].fetchedAt]
        /\ req[r].hit
        /\ req[r].result = req[b].result

(* C18: in every ResultSet stored in the cache or returned in a 200       *)
(* response, the count field equals the number of items of the memes       *)
(* sequence, whichever fetcher built it.                                   *)
CountMatches(result) == result.count = Len(result.memes)

C18_CountIsLength ==
    /\ \A k \in DOMAIN cache : CountMatches(cache[k].data)
    /\ \A r \in Requests :
          (req[r].pc = "done" /\ req[r].method = "GET" /\ req[r].status = 200)
          => CountMatches(req[r].body)

(* C19: if every outbound call is eventually answered, every request that *)
(* has arrived is eventually answered, with a status among 200, 400, 404,  *)
(* 405 and 500; a request that has been answered is never answered again:  *)
(* its status and body stay as they are.                                   *)
Statuses == {200, 400, 404, 405, 500}

Answered(r) == req[r].pc = "done" /\ req[r].status \in Statuses

C19_EveryRequestAnsweredOnce ==
    /\ \A r \in Requests : (started >= r) ~> Answered(r)
    /\ [][\A r \in Requests :
            /\ (req[r].pc = "done") => (req'[r] = req[r])
            /\ (req'[r].pc = "done") => (req'[r].status \in Statuses)
            /\ (req[r].pc # "idle") => (req'[r].pc # "idle")]_vars

\* a request that waited for both sources, which both failed, has been
\* answered 500 by the catch of its handler
C19_Witness ==
    \E r \in Requests :
        /\ Answered(r)
        /\ Len(req[r].calls) = 2
        /\ req[r].thrown # ""
        /\ req[r].status = 500
        /\ started = MaxRequests
        /\ \A q \in 1..MaxRequests : Answered(q)

(* C20: requests with different validated params (subreddit, count) never *)
(* use the same cache key, also when the subreddit has underscores or      *)
(* digits; a request served from the cache got a payload that a request    *)
(* with exactly its params fetched, and every entry was written by a       *)
(* request whose params all requests using that key share.                 *)
Validated(rq) ==
    rq.lookups = 1 /\ CountInRange(rq.count) /\ WordString(rq.subreddit)

C20_KeyIsInjective ==
    /\ \A r \in Requests, q \in Requests :
          (Validated(req[r]) /\ Validated(req[q])
              /\ req[r].cacheKey = req[q].cacheKey)
          => SameParams(r, req[q])
    /\ \A r \in Requests :
          (Validated(req[r]) /\ req[r].hit)
          => \E a \in Requests \ {r} :
                /\ Fetched(a)
                /\ SameParams(a, req[r])
                /\ req[r].result = req[a].result
    /\ \A k \in DOMAIN cache :
          \E a \in Requests :
             /\ Fetched(a)
             /\ req[a].cacheKey = k
             /\ \A q \in Requests :
                   (Validated(req[q]) /\ req[q].cacheKey = k)
                   => SameParams(a, req[q])

\* the entries of (a1, 1) and (a, 11) are both in the cache, under
\* different keys, each with the payload fetched for it
C20_Witness ==
    \E r \in Requests, q \in Requests :
        /\ req[r].subreddit = <<97, 49>> /\ req[r].count = Num(1)
        /\ req[q].subreddit = <<97>> /\ req[q].count = Num(11)
        /\ Fetched(r) /\ Fetched(q)
        /\ req[r].cacheKey # req[q].cacheKey
        /\ {req[r].cacheKey, req[q].cacheKey} \subseteq DOMAIN cache
        /\ cache[req[r].cacheKey].data = req[r].result
        /\ cache[req[q].cacheKey].data = req[q].result
        /\ Len(req[q].result.memes) = 2

=============================================================================
